---- MODULE Spec2Model ----
(***************************************************************************)
(* A model of the ThreadsafeStream class of src/python/my_utils.py: a      *)
(* fixed-capacity circular array of samples with a monotonically growing   *)
(* right index, named index variables (cursors) and the two PyAudio        *)
(* callbacks.  Every public method takes the stream's RLock for its whole  *)
(* body, so one method call is one atomic step of the model; SpecLock      *)
(* takes the calls apart to check that.  Beside it: the append-then-trim   *)
(* stream of src/python/opengl_plus_audio_example.py (SpecBoth), the       *)
(* BufferSwapper (SpecGate) with the main loop that drives it (SpecLoop),  *)
(* the oscilloscope pager (SpecPager), and the output callback as the      *)
(* audio device sees it (SpecConsumer, SpecDrain).                         *)
(***************************************************************************)
EXTENDS Integers, Sequences, FiniteSets, TLC

\* ------------------------------------------------------------------ bounds
MaxCapacity == 2      \* max_size ranges over 1..MaxCapacity
MaxTotal    == 3      \* samples appended over a whole behaviour
MaxTime     == 1      \* time.time() ranges over 0..MaxTime
MaxFrames   == 2      \* frame_count ranges over 0..MaxFrames
MaxRequests == 4      \* start_swapping_buffers calls in a behaviour
MaxRender   == 2      \* numSamplesToRender ranges over 1..MaxRender
MaxLatency  == 2      \* maxRenderingLatencySamples, over 1..MaxLatency

\* ------------------------------------------------------- program constants
MAX_SAMPLE       == 32767
MIN_SAMPLE       == -32768
BYTES_PER_SAMPLE == 2
SAMPLE_RATE      == 44100
sys_maxint       == 2147483647

\* --------------------------------------------------------- input alphabets
\* Python's None (an unwritten slot of _list, a method's empty result),
\* written as an integer that is no sample
None      == -999999
Names     == {"pyaudio_output", "scope"}
SetNames  == {"pyaudio_output"}         \* the names set_index is called with
IndexValues == {-1, MaxTotal + 1}       \* arguments of set_index
DefaultValues == {0, MaxTotal + 1}      \* arguments of set_index_default
\* arguments of get_slice as a call: stream[0:2], stream[-1:], stream[-2:],
\* stream[1:-1]
SliceArgs == {<<0, 2>>, <<-1, sys_maxint>>, <<-2, sys_maxint>>, <<1, -1>>}
\* (assume_right_index_movement, assume_index_var_movement): the defaults,
\* and perform_audio's
SpanFlags == {<<TRUE, TRUE>>, <<FALSE, TRUE>>}
Frames    == 0 .. MaxFrames
\* (frame_count, status_flags) of an output callback: every frame count
\* with no flag, and one call with a flag (paOutputUnderflow) set
OutputCalls == {<<f, 0>> : f \in Frames} \cup {<<1, 4>>}
\* bounds of get_slice: in range, out of range, negative, the default end
AllBounds == ((-(MaxTotal + 2)) .. (MaxTotal + 2))
                 \cup {sys_maxint, -sys_maxint}
NonNegBounds == (0 .. (MaxTotal + 2)) \cup {sys_maxint}

\* Samples are told apart by the position they are appended at, so that a
\* sample read from a wrong slot shows.  Good(i) fits a signed short (and
\* is negative at odd positions), Bad(i) is above MAX_SAMPLE.
Good(i) == IF i % 2 = 0 THEN i + 1 ELSE -(i + 1)
Bad(i)  == MAX_SAMPLE + 1 + i

Max(a, b) == IF a >= b THEN a ELSE b
Min(a, b) == IF a <= b THEN a ELSE b

\* The blocks of n samples that can be appended at position pos
RECURSIVE Blocks(_, _)
Blocks(pos, n) ==
    IF n <= 0 THEN {<<>>}
    ELSE {Append(s, x) : s \in Blocks(pos, n - 1),
                         x \in {Good(pos + n - 1), Bad(pos + n - 1)}}

RECURSIVE GoodBlock(_, _)
GoodBlock(pos, n) ==
    IF n <= 0 THEN <<>> ELSE Append(GoodBlock(pos, n - 1), Good(pos + n - 1))

RECURSIVE Zeros(_)
Zeros(n) == IF n <= 0 THEN <<>> ELSE <<0>> \o Zeros(n - 1)

VARIABLES
    max_size,               \* the constructor's argument
    list,                   \* self._list, the circular array
    right_index,            \* self._right_index
    index_vars,             \* self._index_vars: name -> (index, timestamp)
    last_extend_timestamp,  \* self._last_extend_timestamp
    now,                    \* the value time.time() returns
    history,                \* every sample ever passed to extend, in order
    ret                     \* the last call: its name, arguments, outcome

\* The stream of opengl_plus_audio_example.py, which appends to a list and
\* trims it from the left; it is fed beside the circular array in SpecBoth.
VARIABLES
    ex_list,                \* its self._list
    start_index             \* its self._start_index

example == <<ex_list, start_index>>

\* BufferSwapper: the Event, where its thread stands in _thread_procedure,
\* and counts of what has happened so far.
VARIABLES
    is_swapping,            \* self._is_swapping.is_set()
    worker_pc,              \* "wait", "swap_buffers" or "clear"
    swaps,                  \* glfw.swap_buffers calls that returned
    requests,               \* start_swapping_buffers calls
    requests_done,          \* those made while is_done_swapping() was true
    polled,                 \* the last answer of is_done_swapping
    main_pc                 \* where the main thread stands in main()'s loop

gate == <<is_swapping, worker_pc, swaps, requests, requests_done, polled,
          main_pc>>

\* The threads that call one stream, for the specification that takes the
\* methods apart into the steps between which threads can be switched.
Threads == {"main", "audio"}

VARIABLES
    lock_owner,             \* the thread that holds self._lock, or "nobody"
    lock_count,             \* how many times it has acquired the RLock
    pc,                     \* thread -> where it stands in its call
    pending,                \* thread -> the rest of new_slice (or in_data)
    call_args,              \* thread -> the arguments of its call (for
                            \* extend: the length of new_slice)
    return_to               \* thread -> where the extend it is in returns

locking == <<lock_owner, lock_count, pc, pending, call_args, return_to>>

\* The oscilloscope pager, which reads slices of the stream once a display
\* tick.
VARIABLES
    pagerConfig,            \* its four tuning numbers, once constructed
    lastRenderedStartIndex,
    lastRenderedData,
    pagerOutcome            \* what the last tick did: "page" or "no update"

pager == <<pagerConfig, lastRenderedStartIndex, lastRenderedData, pagerOutcome>>

\* What the audio device got from pyaudio_output_callback so far: the
\* samples of the returned blocks that were read from the stream, each with
\* the logical index it was read at, and whether some call found the cursor
\* behind left_index or failed while encoding its block.
VARIABLES
    delivered,
    fell_behind,
    encode_failed

consumer == <<delivered, fell_behind, encode_failed>>

\* What the methods of one my_utils.ThreadsafeStream do not touch
others == <<example, gate, locking, pager, consumer>>

vars == <<max_size, list, right_index, index_vars, last_extend_timestamp,
          now, history, ret, others>>

stream == <<max_size, list, right_index, last_extend_timestamp, history>>

\* The outcome of a call: what it returned or raised, and what it printed.
Ret(op, args, val, raised, warnings) ==
    [op |-> op, args |-> args, value |-> val, raised |-> raised,
     warnings |-> warnings]

\* ---------------------------------------------------------- sample codec
\* struct.pack('<h', n): two bytes, little-endian two's complement.
InRange(n) == MIN_SAMPLE <= n /\ n <= MAX_SAMPLE

number_to_bytes(n) ==
    LET u == IF n < 0 THEN n + 65536 ELSE n
    IN  <<u % 256, u \div 256>>

\* struct.unpack('<h', b)[0]
bytes_to_number(b) ==
    LET u == b[1] + 256 * b[2]
    IN  IF u >= 32768 THEN u - 65536 ELSE u

RECURSIVE number_list_to_bytes(_)
number_list_to_bytes(number_list) ==
    IF number_list = <<>> THEN <<>>
    ELSE number_to_bytes(Head(number_list))
             \o number_list_to_bytes(Tail(number_list))

bytes_to_number_list(byte_string) ==
    [k \in 1 .. (Len(byte_string) \div BYTES_PER_SAMPLE) |->
        bytes_to_number(<<byte_string[BYTES_PER_SAMPLE * (k - 1) + 1],
                          byte_string[BYTES_PER_SAMPLE * (k - 1) + 2]>>)]

AllInRange(number_list) ==
    \A k \in 1 .. Len(number_list) : InRange(number_list[k])

\* ------------------------------------------------------------ the stream
\* {}: a dict is a function whose domain is the set of its keys.
EmptyDict == [n \in {} |-> <<0, 0>>]

\* ThreadsafeStream.__init__
Init ==
    /\ max_size \in 1 .. MaxCapacity
    /\ list = [k \in 1 .. max_size |-> None]
    /\ right_index = 0
    /\ index_vars = EmptyDict
    /\ last_extend_timestamp = 0
    /\ now = 0
    /\ history = <<>>
    /\ ret = Ret("__init__", <<>>, None, "none", {})
    /\ ex_list = <<>>
    /\ start_index = 0
    /\ is_swapping = FALSE
    /\ worker_pc = "wait"
    /\ swaps = 0
    /\ requests = 0
    /\ requests_done = 0
    /\ polled = "never"
    /\ main_pc = "loop_test"
    /\ lock_owner = "nobody"
    /\ lock_count = 0
    /\ pc = [t \in Threads |-> "idle"]
    /\ pending = [t \in Threads |-> <<>>]
    /\ call_args = [t \in Threads |-> <<0, 0>>]
    /\ return_to = [t \in Threads |-> "idle"]
    /\ pagerConfig = [constructed |-> FALSE, numSamplesToRender |-> 0,
                      minSamplesToAdvance |-> 0,
                      maxRenderingLatencySamples |-> 0,
                      minSearchSpaceSamples |-> 0]
    /\ lastRenderedStartIndex = 0
    /\ lastRenderedData = <<>>
    /\ pagerOutcome = "none"
    /\ delivered = <<>>
    /\ fell_behind = FALSE
    /\ encode_failed = FALSE

\* An extend whose "_right_index += 1" stands after the loop, not in it.
extend_loop_advance_once(lst, ri, new_slice) ==
    IF new_slice = <<>> THEN [list |-> lst, right_index |-> ri + 1]
    ELSE [list |-> [lst EXCEPT ![(ri % Len(lst)) + 1]
                                   = new_slice[Len(new_slice)]],
          right_index |-> ri + 1]

\* An extend that keeps _right_index inside the array, as the slot is.
RECURSIVE extend_loop_wrapping(_, _, _)
extend_loop_wrapping(lst, ri, new_slice) ==
    IF new_slice = <<>> THEN [list |-> lst, right_index |-> ri]
    ELSE extend_loop_wrapping(
             [lst EXCEPT ![(ri % Len(lst)) + 1] = Head(new_slice)],
             (ri + 1) % Len(lst), Tail(new_slice))

\* The loop of extend: one slot written and _right_index advanced per value.
RECURSIVE extend_loop(_, _, _)
extend_loop(lst, ri, new_slice) ==
    IF new_slice = <<>> THEN [list |-> lst, right_index |-> ri]
    ELSE extend_loop([lst EXCEPT ![(ri % Len(lst)) + 1] = Head(new_slice)],
                     ri + 1, Tail(new_slice))

\* A left_index that gives up the oldest retrievable position.
left_index_one_late == Max(0, right_index - Len(list) + 1)

\* The property left_index
left_index == Max(0, right_index - Len(list))

\* A __len__ that answers the capacity.
stream_len_capacity == Len(list)

\* ThreadsafeStream.__len__
stream_len == Min(right_index, Len(list))

\* A get_slice that does not clamp begin and end up to left_index.
get_slice_no_left_clamp(begin, end) ==
    LET b1 == IF begin < 0 THEN right_index + begin ELSE begin
        e1 == IF end < 0 THEN right_index + end ELSE end
        b3 == Min(Max(b1, 0), right_index)
        e3 == Min(Max(e1, 0), right_index)
    IN  [k \in 1 .. (e3 - b3) |-> list[((b3 + k - 1) % Len(list)) + 1]]

\* A get_slice that does not clamp end down to _right_index.
get_slice_no_right_clamp(begin, end) ==
    LET b1 == IF begin < 0 THEN right_index + begin ELSE begin
        e1 == IF end < 0 THEN right_index + end ELSE end
        b3 == Min(Max(b1, left_index), right_index)
        e3 == Min(Max(e1, left_index), right_index + Len(list))
    IN  [k \in 1 .. (e3 - b3) |-> list[((b3 + k - 1) % Len(list)) + 1]]

\* A get_slice that takes a negative bound relative to the array's length.
get_slice_negative_from_len(begin, end) ==
    LET b1 == IF begin < 0 THEN Len(list) + begin ELSE begin
        e1 == IF end < 0 THEN Len(list) + end ELSE end
        b3 == Min(Max(b1, left_index), right_index)
        e3 == Min(Max(e1, left_index), right_index)
    IN  [k \in 1 .. (e3 - b3) |-> list[((b3 + k - 1) % Len(list)) + 1]]

\* ThreadsafeStream.get_slice, for integer begin and end
get_slice(begin, end) ==
    LET b1 == IF begin < 0 THEN right_index + begin ELSE begin
        e1 == IF end < 0 THEN right_index + end ELSE end
        b2 == Max(b1, left_index)
        e2 == Max(e1, left_index)
        b3 == Min(b2, right_index)
        e3 == Min(e2, right_index)
    IN  [k \in 1 .. (e3 - b3) |-> list[((b3 + k - 1) % Len(list)) + 1]]

\* ThreadsafeStream.extend
Extend(new_slice) ==
    /\ LET r == extend_loop(list, right_index, new_slice)
       IN  /\ list' = r.list
           /\ right_index' = r.right_index
    /\ last_extend_timestamp' = now
    /\ history' = history \o new_slice
    /\ ret' = Ret("extend", <<new_slice>>, None, "none", {})
    /\ UNCHANGED <<others, max_size, index_vars, now>>

\* ThreadsafeStream.get_slice as a call
GetSlice(begin, end) ==
    /\ ret' = Ret("get_slice", <<begin, end>>, get_slice(begin, end), "none", {})
    /\ UNCHANGED <<others, stream, index_vars, now>>

\* len(stream)
StreamLen ==
    /\ ret' = Ret("__len__", <<>>, stream_len, "none", {})
    /\ UNCHANGED <<others, stream, index_vars, now>>

\* Reading the properties left_index and right_index
ReadLeftIndex ==
    /\ ret' = Ret("left_index", <<>>, left_index, "none", {})
    /\ UNCHANGED <<others, stream, index_vars, now>>

ReadRightIndex ==
    /\ ret' = Ret("right_index", <<>>, right_index, "none", {})
    /\ UNCHANGED <<others, stream, index_vars, now>>

\* ------------------------------------------------------ the index variables
\* self._index_vars[index_name] = (new_value, time.time())
set_index(iv, index_name, new_value) ==
    [n \in (DOMAIN iv) \cup {index_name} |->
        IF n = index_name THEN <<new_value, now>> ELSE iv[n]]

\* A set_index_default that stores its value whether or not the name is
\* there.
set_index_default_overwriting(iv, index_name, new_value_if_nonexistent) ==
    set_index(iv, index_name, new_value_if_nonexistent)

set_index_default(iv, index_name, new_value_if_nonexistent) ==
    IF index_name \notin DOMAIN iv
    THEN set_index(iv, index_name, new_value_if_nonexistent)
    ELSE iv

\* A get_index that answers 0 for a name that is not there.
get_index_defaulting(iv, index_name) ==
    IF index_name \in DOMAIN iv
    THEN [raised |-> "none", value |-> iv[index_name][1]]
    ELSE [raised |-> "none", value |-> 0]

\* self._index_vars[index_name][0], or KeyError
get_index(iv, index_name) ==
    IF index_name \in DOMAIN iv
    THEN [raised |-> "none", value |-> iv[index_name][1]]
    ELSE [raised |-> "KeyError", value |-> None]

\* self._index_vars[index_name][1], or KeyError
get_index_timestamp(iv, index_name) ==
    IF index_name \in DOMAIN iv
    THEN [raised |-> "none", value |-> iv[index_name][2]]
    ELSE [raised |-> "KeyError", value |-> None]

SetIndex(index_name, new_value) ==
    /\ index_vars' = set_index(index_vars, index_name, new_value)
    /\ ret' = Ret("set_index", <<index_name, new_value>>, None, "none", {})
    /\ UNCHANGED <<others, stream, now>>

SetIndexDefault(index_name, new_value_if_nonexistent) ==
    /\ index_vars' = set_index_default(index_vars, index_name,
                                       new_value_if_nonexistent)
    /\ ret' = Ret("set_index_default",
                  <<index_name, new_value_if_nonexistent>>, None, "none", {})
    /\ UNCHANGED <<others, stream, now>>

GetIndex(index_name) ==
    /\ LET r == get_index(index_vars, index_name)
       IN  ret' = Ret("get_index", <<index_name>>, r.value, r.raised, {})
    /\ UNCHANGED <<others, stream, index_vars, now>>

GetIndexTimestamp(index_name) ==
    /\ LET r == get_index_timestamp(index_vars, index_name)
       IN  ret' = Ret("get_index_timestamp", <<index_name>>,
                      r.value, r.raised, {})
    /\ UNCHANGED <<others, stream, index_vars, now>>

\* A get_time_span that adds and subtracts both elapsed times whatever its
\* flags say.
get_time_span_ignoring_flags(index_name, sample_rate, assume_right, assume_index) ==
    LET i == get_index(index_vars, index_name)
    IN  IF i.raised # "none" THEN [raised |-> i.raised, value |-> None]
        ELSE
        LET t   == get_index_timestamp(index_vars, index_name).value
            r0  == right_index - i.value
        IN  [raised |-> "none",
             value |-> [num |-> r0 + sample_rate
                                   * ((now - last_extend_timestamp) - (now - t)),
                      den |-> sample_rate]]

\* ThreadsafeStream.get_time_span; assume_right and assume_index are its
\* assume_right_index_movement and assume_index_var_movement.  The result
\* is the exact rational num / den seconds (one unit of `now` is a second).
get_time_span(index_name, sample_rate, assume_right, assume_index) ==
    LET i == get_index(index_vars, index_name)
    IN  IF i.raised # "none" THEN [raised |-> i.raised, value |-> None]
        ELSE
        LET t   == get_index_timestamp(index_vars, index_name).value
            r0  == right_index - i.value
            r1  == IF assume_right THEN now - last_extend_timestamp ELSE 0
            r2  == IF assume_index THEN now - t ELSE 0
        IN  [raised |-> "none",
             value |-> [num |-> r0 + sample_rate * (r1 - r2),
                      den |-> sample_rate]]

GetTimeSpan(index_name, sample_rate, a_right, a_index) ==
    /\ LET r == get_time_span(index_name, sample_rate, a_right, a_index)
       IN  ret' = Ret("get_time_span",
                      <<index_name, sample_rate, a_right, a_index>>,
                      r.value, r.raised, {})
    /\ UNCHANGED <<others, stream, index_vars, now>>

\* ------------------------------------------------------ PyAudio callbacks
\* pyaudio_input_callback: decode, check the frame count, extend.
InputCallback(in_data, frame_count, status_flags) ==
    LET w == IF status_flags # 0 THEN {"status_flags"} ELSE {}
        in_numbers == bytes_to_number_list(in_data)
    IN  IF Len(in_data) % BYTES_PER_SAMPLE # 0 \/ Len(in_numbers) # frame_count
        THEN /\ ret' = Ret("pyaudio_input_callback", <<in_data, frame_count>>,
                           None, "AssertionError", w)
             /\ UNCHANGED <<others, stream, index_vars, now>>
        ELSE /\ Len(history) + Len(in_numbers) <= MaxTotal
             /\ LET r == extend_loop(list, right_index, in_numbers)
                IN  /\ list' = r.list
                    /\ right_index' = r.right_index
             /\ last_extend_timestamp' = now
             /\ history' = history \o in_numbers
             /\ ret' = Ret("pyaudio_input_callback", <<in_data, frame_count>>,
                           [data |-> None, flag |-> "paContinue"], "none", w)
             /\ UNCHANGED <<others, max_size, index_vars, now>>

\* A callback that moves the cursor by the number of samples asked for.
advance_index_by_frame_count(index, out_numbers, frame_count) ==
    index + frame_count

\* A callback that would leave the cursor where it read from.
advance_index_not_at_all(index, out_numbers, frame_count) == index

\* The cursor pyaudio_output_callback stores: the index it read from plus
\* the number of samples get_slice returned.
advance_index(index, out_numbers, frame_count) == index + Len(out_numbers)

\* A callback that reads from a cursor that fell behind as it is.
clamp_index_missing(index) == index

\* The index pyaudio_output_callback reads from: the cursor, or left_index
\* when the cursor fell behind it.
clamp_index(index) == IF index < left_index THEN left_index ELSE index

\* A callback that would store the cursor only once its block is encoded.
index_vars_when_encoding_raises_unstored(iv1, iv2) == iv1

\* The index table a call leaves when number_list_to_bytes raises, out of
\* iv1, the table before set_index ran, and iv2, the table after it:
\* set_index runs before the block is encoded.
index_vars_when_encoding_raises(iv1, iv2) == iv2

\* pyaudio_output_callback, as the index table it leaves and its outcome.
pyaudio_output_callback(frame_count, status_flags) ==
    LET po   == "pyaudio_output"
        w0   == IF status_flags # 0 THEN {"status_flags"} ELSE {}
        iv1  == set_index_default(index_vars, po, 0)
        idx0 == get_index(iv1, po).value
        fell == idx0 < left_index
        index == clamp_index(idx0)
        w1   == IF fell THEN w0 \cup {"fell_behind"} ELSE w0
        out_numbers == get_slice(index, index + frame_count)
        iv2  == set_index(iv1, po, advance_index(index, out_numbers, frame_count))
        cur  == get_index(iv2, po).value
        under == Len(out_numbers) < frame_count
        w2   == IF under THEN w1 \cup {"underrun"} ELSE w1
        padded == IF under
                  THEN out_numbers \o Zeros(frame_count - Len(out_numbers))
                  ELSE out_numbers
        args == <<frame_count, status_flags>>
        op   == "pyaudio_output_callback"
    IN  IF ~(left_index <= cur /\ cur <= right_index)
        THEN [index_vars |-> iv2,
              ret |-> Ret(op, args, None, "AssertionError", w1)]
        ELSE IF Len(padded) # frame_count
        THEN [index_vars |-> iv2,
              ret |-> Ret(op, args, None, "AssertionError", w2)]
        ELSE IF ~AllInRange(padded)
        THEN [index_vars |-> index_vars_when_encoding_raises(iv1, iv2),
              ret |-> Ret(op, args, None, "struct.error", w2)]
        ELSE [index_vars |-> iv2,
              ret |-> Ret(op, args,
                          [data |-> number_list_to_bytes(padded),
                           flag |-> "paContinue"], "none", w2)]

OutputCallback(frame_count, status_flags) ==
    /\ LET r == pyaudio_output_callback(frame_count, status_flags)
       IN  /\ index_vars' = r.index_vars
           /\ ret' = r.ret
    /\ UNCHANGED <<others, stream, now>>

\* time.time() moves on between two calls
Tick ==
    /\ now < MaxTime
    /\ now' = now + 1
    /\ UNCHANGED <<others, max_size, list, right_index, index_vars,
                   last_extend_timestamp, history, ret>>

\* The blocks a caller may pass to extend in the current state
NewSlices ==
    UNION {Blocks(right_index, n) : n \in 0 .. (MaxTotal - Len(history))}

\* What PyAudio passes the input callback, as (in_data, frame_count,
\* status_flags): the bytes of n recorded samples with frame_count = n; one
\* sample with paInputOverflow set; and a block whose frame_count is wrong.
Recorded ==
    {<<number_list_to_bytes(GoodBlock(right_index, n)), n, 0>> :
        n \in 1 .. (MaxTotal - Len(history))}
    \cup {<<number_list_to_bytes(GoodBlock(right_index, n)), n, 2>> :
        n \in 1 .. Min(1, MaxTotal - Len(history))}
    \cup {<<<<1, 0>>, 2, 0>>}

Reads ==
    \/ \E a \in SliceArgs : GetSlice(a[1], a[2])
    \/ StreamLen
    \/ ReadLeftIndex
    \/ ReadRightIndex
    \/ \E n \in Names : GetIndex(n)
    \/ \E n \in Names : GetIndexTimestamp(n)
    \/ \E n \in Names, a \in SpanFlags :
           GetTimeSpan(n, SAMPLE_RATE, a[1], a[2])

Callbacks ==
    \/ \E r \in Recorded : InputCallback(r[1], r[2], r[3])
    \/ \E c \in OutputCalls : OutputCallback(c[1], c[2])

\* Every method, called by any thread in any order.
Next ==
    \/ \E s \in NewSlices : Extend(s)
    \/ Reads
    \/ \E n \in SetNames, v \in IndexValues : SetIndex(n, v)
    \/ \E n \in SetNames, v \in DefaultValues : SetIndexDefault(n, v)
    \/ Callbacks
    \/ Tick

Spec == Init /\ [][Next]_vars

\* The stream as the audio program drives it: producers extend, PyAudio
\* calls the callbacks, and the output cursor is created with
\* set_index_default('pyaudio_output', 0) and moved by the output callback
\* alone (MyProgram.perform_audio and main).
NextAudio ==
    \/ \E s \in NewSlices : Extend(s)
    \/ Reads
    \/ SetIndexDefault("pyaudio_output", 0)
    \/ Callbacks
    \/ Tick

SpecAudio == Init /\ [][NextAudio]_vars

\* The cursor a pyaudio_output_callback call finds once set_index_default
\* has run: the stored one, or 0 when there was none.
EntryIndex ==
    get_index(set_index_default(index_vars, "pyaudio_output", 0),
              "pyaudio_output").value

\* The samples one pyaudio_output_callback call hands the device, each with
\* its logical index: the part of the returned block that came out of
\* get_slice, which starts at the index the call read from and ends at the
\* cursor it stored.  A call that raises returns no block.
delivered_by(index, r) ==
    IF r.ret.raised # "none" THEN <<>>
    ELSE [k \in 1 .. (get_index(r.index_vars, "pyaudio_output").value - index) |->
             <<index + k - 1, bytes_to_number_list(r.ret.value.data)[k]>>]

\* One call of pyaudio_output_callback by the PyAudio thread, with what it
\* hands the device written down.  (r is the one outcome of the call, index
\* the one index it reads from.)
ConsumerCall(frame_count) ==
    /\ \E r \in {pyaudio_output_callback(frame_count, 0)},
          index \in {clamp_index(EntryIndex)} :
           /\ index_vars' = r.index_vars
           /\ ret' = r.ret
           /\ delivered' = delivered \o delivered_by(index, r)
           /\ fell_behind' = (fell_behind \/ "fell_behind" \in r.ret.warnings)
           /\ encode_failed' = (encode_failed \/ r.ret.raised = "struct.error")
    /\ UNCHANGED <<stream, now, example, gate, locking, pager>>

\* A producer and the audio device alone: extend calls and output callbacks
\* in any order.  The cursor is made by the first callback and moved by the
\* callbacks only.
NextConsumer ==
    \/ \E s \in NewSlices : Extend(s)
    \/ \E f \in Frames : ConsumerCall(f)

SpecConsumer == Init /\ [][NextConsumer]_vars

\* PyAudio keeps asking for blocks: its thread calls the output callback
\* with a positive frame_count again and again for as long as the output
\* stream is active, whatever the producer does.
FairConsumer == WF_vars(\E f \in Frames \ {0} : ConsumerCall(f))

\* What the producer appends while the device drains the stream: blocks of
\* samples that fit a signed short, and, as the first sample of all, one
\* that does not, so that the cursor also passes a block that cannot be
\* encoded.  The producer stops once MaxTotal samples are appended.
DrainSlices ==
    {GoodBlock(right_index, n) : n \in 1 .. (MaxTotal - Len(history))}
    \cup (IF history = <<>> THEN {<<Bad(0)>>} ELSE {})

NextDrain ==
    \/ \E s \in DrainSlices : Extend(s)
    \/ \E f \in Frames \ {0} : ConsumerCall(f)

SpecDrain == Init /\ [][NextDrain]_vars /\ FairConsumer

\* The array alone: producers and readers of slices, with every pair of
\* bounds.  extend, get_slice, __len__ and the two index properties read
\* and write _list and _right_index only, so the index table and the clock
\* stay as constructed.
NextStream ==
    \/ \E s \in NewSlices : Extend(s)
    \/ \E r \in Recorded : InputCallback(r[1], r[2], r[3])
    \/ \E b \in AllBounds, e \in AllBounds : GetSlice(b, e)
    \/ StreamLen
    \/ ReadLeftIndex
    \/ ReadRightIndex

SpecStream == Init /\ [][NextStream]_vars

\* ------------------------------------- the stream of the example program
\* Python's lst[begin : end] for a list: a negative bound counts from the
\* end, and both bounds are cut to 0 .. len(lst).
py_slice(lst, begin, end) ==
    LET b == Min(Max(IF begin < 0 THEN begin + Len(lst) ELSE begin, 0), Len(lst))
        e == Min(Max(IF end < 0 THEN end + Len(lst) ELSE end, 0), Len(lst))
    IN  [k \in 1 .. (e - b) |-> lst[b + k]]

\* An extend that trims the list and leaves _start_index where it was.
example_extend_no_shift(lst, start, new_slice) ==
    LET l2 == lst \o new_slice
        num_to_delete == Len(l2) - max_size
    IN  IF num_to_delete > 0
        THEN [list |-> SubSeq(l2, num_to_delete + 1, Len(l2)),
              start_index |-> start]
        ELSE [list |-> l2, start_index |-> start]

\* extend of the example's stream: append, then delete what exceeds
\* _maxSize from the left and count it in _start_index.
example_extend(lst, start, new_slice) ==
    LET l2 == lst \o new_slice
        num_to_delete == Len(l2) - max_size
    IN  IF num_to_delete > 0
        THEN [list |-> SubSeq(l2, num_to_delete + 1, Len(l2)),
              start_index |-> start + num_to_delete]
        ELSE [list |-> l2, start_index |-> start]

\* __getslice__ of the example's stream
example_getslice(begin, end) ==
    LET b == IF 0 <= begin /\ begin < sys_maxint
             THEN Max(0, begin - start_index) ELSE begin
        e == IF 0 <= end /\ end < sys_maxint
             THEN Max(0, end - start_index) ELSE end
    IN  py_slice(ex_list, b, e)

example_left_index == start_index

example_right_index == start_index + Len(ex_list)

\* One block passed to extend of both streams
ExtendBoth(new_slice) ==
    /\ LET r == extend_loop(list, right_index, new_slice)
       IN  /\ list' = r.list
           /\ right_index' = r.right_index
    /\ LET x == example_extend(ex_list, start_index, new_slice)
       IN  /\ ex_list' = x.list
           /\ start_index' = x.start_index
    /\ last_extend_timestamp' = now
    /\ history' = history \o new_slice
    /\ ret' = Ret("extend", <<new_slice>>, None, "none", {})
    /\ UNCHANGED <<max_size, index_vars, now, gate, locking, pager, consumer>>

\* One slice read from both streams; ret keeps the circular array's answer
\* and whether the example's stream gave the same.
GetSliceBoth(begin, end) ==
    /\ ret' = Ret("get_slice", <<begin, end>>, get_slice(begin, end), "none",
                  IF example_getslice(begin, end) = get_slice(begin, end)
                  THEN {} ELSE {"differ"})
    /\ UNCHANGED <<stream, index_vars, now, others>>

\* Two streams of one capacity, given the same blocks in the same order.
NextBoth ==
    \/ \E s \in NewSlices : ExtendBoth(s)
    \/ \E b \in NonNegBounds, e \in NonNegBounds : GetSliceBoth(b, e)
    \/ Tick

SpecBoth == Init /\ [][NextBoth]_vars

\* ----------------------------------------------------------- BufferSwapper
\* is_done_swapping: self._is_swapping.is_set() == False.  Its thread runs
\* "while True" and is alive at every call, so the assertion before it holds.
is_done_swapping == is_swapping = FALSE

\* A wait() that returns whether or not the Event is set.
wait_returns_unset == TRUE

\* A wait() that never returns.
wait_returns_never == FALSE

\* self._is_swapping.wait() returns once the Event is set
wait_returns == is_swapping = TRUE

\* start_swapping_buffers: self._is_swapping.set(), by the main thread
StartSwappingBuffers ==
    /\ requests < MaxRequests
    /\ is_swapping' = TRUE
    /\ requests' = requests + 1
    /\ requests_done' = IF is_done_swapping THEN requests_done + 1
                                            ELSE requests_done
    /\ UNCHANGED <<worker_pc, swaps, polled>>
    /\ UNCHANGED <<stream, index_vars, now, ret, example, locking, pager, consumer>>

IsDoneSwapping ==
    /\ polled' = IF is_done_swapping THEN "done" ELSE "swapping"
    /\ UNCHANGED <<is_swapping, worker_pc, swaps, requests, requests_done>>
    /\ UNCHANGED <<stream, index_vars, now, ret, example, locking, pager, consumer>>

\* A thread procedure that goes from wait() straight to clear().
statement_after_wait_is_clear == "clear"

\* The statement of _thread_procedure that follows wait()
statement_after_wait == "swap_buffers"

\* _thread_procedure, one statement a step: wait() returns,
WorkerWait ==
    /\ worker_pc = "wait"
    /\ wait_returns
    /\ worker_pc' = statement_after_wait
    /\ UNCHANGED <<is_swapping, swaps, requests, requests_done, polled>>
    /\ UNCHANGED <<stream, index_vars, now, ret, example, locking, pager, consumer>>

\* glfw.swap_buffers(self._window) returns,
WorkerSwapBuffers ==
    /\ worker_pc = "swap_buffers"
    /\ swaps' = swaps + 1
    /\ worker_pc' = "clear"
    /\ UNCHANGED <<is_swapping, requests, requests_done, polled>>
    /\ UNCHANGED <<stream, index_vars, now, ret, example, locking, pager, consumer>>

\* self._is_swapping.clear(), and back to the head of the loop.
WorkerClear ==
    /\ worker_pc = "clear"
    /\ is_swapping' = FALSE
    /\ worker_pc' = "wait"
    /\ UNCHANGED <<swaps, requests, requests_done, polled>>
    /\ UNCHANGED <<stream, index_vars, now, ret, example, locking, pager, consumer>>

\* The main thread asks and polls whenever it likes; the thread of the
\* BufferSwapper runs beside it.
NextGate ==
    \/ StartSwappingBuffers /\ UNCHANGED main_pc
    \/ IsDoneSwapping /\ UNCHANGED main_pc
    \/ WorkerWait /\ UNCHANGED main_pc
    \/ WorkerSwapBuffers /\ UNCHANGED main_pc
    \/ WorkerClear /\ UNCHANGED main_pc

SpecGate == Init /\ [][NextGate]_vars

\* ------------------------------------------------- the loop of main()
\* What the main loop leaves alone besides the BufferSwapper
NotGate == <<stream, index_vars, now, ret, example, locking, pager, consumer>>

\* while not glfw.window_should_close(window) and ...: the window may be
\* closed before any frame, and is closed after MaxRequests frames
MainLoopTest ==
    /\ main_pc = "loop_test"
    /\ \/ requests < MaxRequests /\ main_pc' = "perform_frame"
       \/ main_pc' = "stopped"
    /\ UNCHANGED <<is_swapping, worker_pc, swaps, requests, requests_done>>
    /\ UNCHANGED <<polled, NotGate>>

\* my_program.perform_frame() returns: the frame is rendered into the back
\* buffer.  (Its stream calls, in perform_audio, are the SetIndexDefault,
\* GetTimeSpan and Extend steps of SpecAudio.)
MainPerformFrame ==
    /\ main_pc = "perform_frame"
    /\ main_pc' = "start_swapping_buffers"
    /\ UNCHANGED <<is_swapping, worker_pc, swaps, requests, requests_done>>
    /\ UNCHANGED <<polled, NotGate>>

\* buffer_swapper.start_swapping_buffers()
MainStartSwappingBuffers ==
    /\ main_pc = "start_swapping_buffers"
    /\ StartSwappingBuffers
    /\ main_pc' = "is_done_swapping"

\* A polling loop that goes on whatever is_done_swapping answers.
after_is_done_swapping_always_on(done) == "poll_events_after"

\* while not buffer_swapper.is_done_swapping(): into the body, or past it
after_is_done_swapping(done) ==
    IF done THEN "poll_events_after" ELSE "poll_events"

MainIsDoneSwapping ==
    /\ main_pc = "is_done_swapping"
    /\ IsDoneSwapping
    /\ main_pc' = after_is_done_swapping(is_done_swapping)

\* glfw.poll_events(); time.sleep(0.001), the body of the polling loop
MainPollEvents ==
    /\ main_pc = "poll_events"
    /\ main_pc' = "is_done_swapping"
    /\ UNCHANGED <<is_swapping, worker_pc, swaps, requests, requests_done>>
    /\ UNCHANGED <<polled, NotGate>>

\* glfw.poll_events(); sys.stdout.flush(), and back to the loop's test
MainPollEventsAfter ==
    /\ main_pc = "poll_events_after"
    /\ main_pc' = "loop_test"
    /\ UNCHANGED <<is_swapping, worker_pc, swaps, requests, requests_done>>
    /\ UNCHANGED <<polled, NotGate>>

\* One step of the main thread
MainStep ==
    \/ MainLoopTest
    \/ MainPerformFrame
    \/ MainStartSwappingBuffers
    \/ MainIsDoneSwapping
    \/ MainPollEvents
    \/ MainPollEventsAfter

\* The main thread in its loop and the thread of the BufferSwapper
NextLoop ==
    \/ MainStep
    \/ WorkerWait /\ UNCHANGED main_pc
    \/ WorkerSwapBuffers /\ UNCHANGED main_pc
    \/ WorkerClear /\ UNCHANGED main_pc

SpecLoop == Init /\ [][NextLoop]_vars

\* Both threads keep being scheduled, and glfw.swap_buffers returns.
FairLoop ==
    /\ WF_vars(MainStep)
    /\ WF_vars(WorkerWait /\ UNCHANGED main_pc)
    /\ WF_vars(WorkerSwapBuffers /\ UNCHANGED main_pc)
    /\ WF_vars(WorkerClear /\ UNCHANGED main_pc)

SpecLoopFair == Init /\ [][NextLoop]_vars /\ FairLoop

\* ------------------------------------------- the methods, step by step
\* Every method body is "with self._lock:".  Here a call is taken apart:
\* the thread asks for the lock, runs the body, and gives the lock back;
\* the loop of extend runs one statement a step.  Another thread may take
\* a step between any two of these.

\* An RLock that lets every thread in.
can_acquire_unlocked(t) == TRUE

\* threading.RLock: free, or held by the asking thread itself
can_acquire(t) == lock_owner = "nobody" \/ lock_owner = t

AcquirePcs == {"extend_acquire", "input_acquire", "slice_acquire",
               "output_acquire", "index_acquire", "span_acquire"}
ReleasePcs == {"extend_release", "input_release", "slice_release",
               "output_release", "index_release", "span_release"}

\* Where a thread goes once it has the lock
AfterAcquire(p) ==
    CASE p = "extend_acquire" -> "extend_store"
      [] p = "input_acquire"  -> "input_decode"
      [] p = "slice_acquire"  -> "slice_body"
      [] p = "output_acquire" -> "output_body"
      [] p = "index_acquire"  -> "index_body"
      [] p = "span_acquire"   -> "span_body"

\* Samples handed to the stream by callers and not yet appended
Issued == Len(history) + Len(pending["main"])
              + (Len(pending["audio"]) \div BYTES_PER_SAMPLE)

\* A block of n fresh samples, each told apart by its number
FreshBlock(n) == [k \in 1 .. n |-> Issued + k]

\* __enter__ of "with self._lock"
Acquire(t) ==
    /\ pc[t] \in AcquirePcs
    /\ can_acquire(t)
    /\ lock_owner' = t
    /\ lock_count' = lock_count + 1
    /\ pc' = [pc EXCEPT ![t] = AfterAcquire(pc[t])]
    /\ UNCHANGED <<stream, index_vars, now, ret, example, gate, pager, consumer>>
    /\ UNCHANGED <<pending, call_args, return_to>>

\* __exit__ of "with self._lock", and the return of the method
Release(t) ==
    /\ pc[t] \in ReleasePcs
    /\ lock_count' = lock_count - 1
    /\ lock_owner' = IF lock_count = 1 THEN "nobody" ELSE lock_owner
    /\ pc' = [pc EXCEPT ![t] = IF pc[t] = "extend_release"
                               THEN return_to[t] ELSE "idle"]
    /\ UNCHANGED <<stream, index_vars, now, ret, example, gate, pager, consumer>>
    /\ UNCHANGED <<pending, call_args, return_to>>

\* The main thread calls extend(new_slice)
CallExtend(t, new_slice) ==
    /\ pc[t] = "idle"
    /\ pc' = [pc EXCEPT ![t] = "extend_acquire"]
    /\ pending' = [pending EXCEPT ![t] = new_slice]
    /\ call_args' = [call_args EXCEPT ![t] = <<Len(new_slice), 0>>]
    /\ return_to' = [return_to EXCEPT ![t] = "idle"]
    /\ UNCHANGED <<stream, index_vars, now, ret, example, gate, pager, consumer>>
    /\ UNCHANGED <<lock_owner, lock_count>>

\* for value in new_slice: self._list[self._right_index % len(self._list)]
\* = value, or the end of the loop
ExtendStore(t) ==
    /\ pc[t] = "extend_store"
    /\ IF pending[t] = <<>>
       THEN /\ pc' = [pc EXCEPT ![t] = "extend_stamp"]
            /\ UNCHANGED list
       ELSE /\ list' = [list EXCEPT ![(right_index % Len(list)) + 1]
                                        = Head(pending[t])]
            /\ pc' = [pc EXCEPT ![t] = "extend_advance"]
    /\ UNCHANGED <<max_size, right_index, last_extend_timestamp, history>>
    /\ UNCHANGED <<index_vars, now, ret, example, gate, pager, consumer>>
    /\ UNCHANGED <<lock_owner, lock_count, pending, call_args, return_to>>

\* self._right_index += 1
ExtendAdvance(t) ==
    /\ pc[t] = "extend_advance"
    /\ right_index' = right_index + 1
    /\ history' = Append(history, Head(pending[t]))
    /\ pending' = [pending EXCEPT ![t] = Tail(pending[t])]
    /\ pc' = [pc EXCEPT ![t] = "extend_store"]
    /\ UNCHANGED <<max_size, list, last_extend_timestamp>>
    /\ UNCHANGED <<index_vars, now, ret, example, gate, pager, consumer>>
    /\ UNCHANGED <<lock_owner, lock_count, call_args, return_to>>

\* self._last_extend_timestamp = time.time()
ExtendStamp(t) ==
    /\ pc[t] = "extend_stamp"
    /\ last_extend_timestamp' = now
    /\ pc' = [pc EXCEPT ![t] = "extend_release"]
    /\ UNCHANGED <<max_size, list, right_index, history>>
    /\ UNCHANGED <<index_vars, now, ret, example, gate, pager, consumer>>
    /\ UNCHANGED <<lock_owner, lock_count, pending, call_args, return_to>>

\* PyAudio's thread calls pyaudio_input_callback(in_data, frame_count, ..)
CallInputCallback(t, in_data, frame_count) ==
    /\ pc[t] = "idle"
    /\ pc' = [pc EXCEPT ![t] = "input_acquire"]
    /\ pending' = [pending EXCEPT ![t] = in_data]
    /\ call_args' = [call_args EXCEPT ![t] = <<frame_count, 0>>]
    /\ return_to' = [return_to EXCEPT ![t] = "input_release"]
    /\ UNCHANGED <<stream, index_vars, now, ret, example, gate, pager, consumer>>
    /\ UNCHANGED <<lock_owner, lock_count>>

\* in_numbers = bytes_to_number_list(in_data); then the call of
\* self.extend(in_numbers) with the lock held
InputDecode(t) ==
    /\ pc[t] = "input_decode"
    /\ Len(bytes_to_number_list(pending[t])) = call_args[t][1]
    /\ pending' = [pending EXCEPT ![t] = bytes_to_number_list(pending[t])]
    /\ pc' = [pc EXCEPT ![t] = "extend_acquire"]
    /\ UNCHANGED <<stream, index_vars, now, ret, example, gate, pager, consumer>>
    /\ UNCHANGED <<lock_owner, lock_count, call_args, return_to>>

\* The main thread calls get_slice(begin, end)
CallGetSlice(t, begin, end) ==
    /\ pc[t] = "idle"
    /\ pc' = [pc EXCEPT ![t] = "slice_acquire"]
    /\ call_args' = [call_args EXCEPT ![t] = <<begin, end>>]
    /\ UNCHANGED <<stream, index_vars, now, ret, example, gate, pager, consumer>>
    /\ UNCHANGED <<lock_owner, lock_count, pending, return_to>>

\* The body of get_slice
SliceBody(t) ==
    /\ pc[t] = "slice_body"
    /\ ret' = Ret("get_slice", call_args[t],
                  get_slice(call_args[t][1], call_args[t][2]), "none", {})
    /\ pc' = [pc EXCEPT ![t] = "slice_release"]
    /\ UNCHANGED <<stream, index_vars, now, example, gate, pager, consumer>>
    /\ UNCHANGED <<lock_owner, lock_count, pending, call_args, return_to>>

\* PyAudio's thread calls pyaudio_output_callback(.., frame_count, ..)
CallOutputCallback(t, frame_count) ==
    /\ pc[t] = "idle"
    /\ pc' = [pc EXCEPT ![t] = "output_acquire"]
    /\ call_args' = [call_args EXCEPT ![t] = <<frame_count, 0>>]
    /\ UNCHANGED <<stream, index_vars, now, ret, example, gate, pager, consumer>>
    /\ UNCHANGED <<lock_owner, lock_count, pending, return_to>>

\* The body of pyaudio_output_callback
OutputBody(t) ==
    /\ pc[t] = "output_body"
    /\ LET r == pyaudio_output_callback(call_args[t][1], call_args[t][2])
       IN  /\ index_vars' = r.index_vars
           /\ ret' = r.ret
    /\ pc' = [pc EXCEPT ![t] = "output_release"]
    /\ UNCHANGED <<stream, now, example, gate, pager, consumer>>
    /\ UNCHANGED <<lock_owner, lock_count, pending, call_args, return_to>>

\* The main thread calls set_index('scope', new_value)
CallSetIndex(t, new_value) ==
    /\ pc[t] = "idle"
    /\ pc' = [pc EXCEPT ![t] = "index_acquire"]
    /\ call_args' = [call_args EXCEPT ![t] = <<new_value, 0>>]
    /\ UNCHANGED <<stream, index_vars, now, ret, example, gate, pager, consumer>>
    /\ UNCHANGED <<lock_owner, lock_count, pending, return_to>>

\* The body of set_index
IndexBody(t) ==
    /\ pc[t] = "index_body"
    /\ index_vars' = set_index(index_vars, "scope", call_args[t][1])
    /\ ret' = Ret("set_index", <<"scope", call_args[t][1]>>, None, "none", {})
    /\ pc' = [pc EXCEPT ![t] = "index_release"]
    /\ UNCHANGED <<stream, now, example, gate, pager, consumer>>
    /\ UNCHANGED <<lock_owner, lock_count, pending, call_args, return_to>>

\* The main thread calls get_time_span('scope', sample_rate)
CallGetTimeSpan(t, sample_rate) ==
    /\ pc[t] = "idle"
    /\ pc' = [pc EXCEPT ![t] = "span_acquire"]
    /\ call_args' = [call_args EXCEPT ![t] = <<sample_rate, 0>>]
    /\ UNCHANGED <<stream, index_vars, now, ret, example, gate, pager, consumer>>
    /\ UNCHANGED <<lock_owner, lock_count, pending, return_to>>

\* The body of get_time_span, with its calls of get_index and
\* get_index_timestamp, which ask for the lock the thread holds
SpanBody(t) ==
    /\ pc[t] = "span_body"
    /\ LET r == get_time_span("scope", call_args[t][1], TRUE, TRUE)
       IN  ret' = Ret("get_time_span", <<"scope", call_args[t][1], TRUE, TRUE>>,
                      r.value, r.raised, {})
    /\ pc' = [pc EXCEPT ![t] = "span_release"]
    /\ UNCHANGED <<stream, index_vars, now, example, gate, pager, consumer>>
    /\ UNCHANGED <<lock_owner, lock_count, pending, call_args, return_to>>

\* The main thread produces, reads slices and keeps a cursor of its own,
\* PyAudio's thread runs the two callbacks, and the two are switched
\* between any two steps.
NextLock ==
    \/ \E n \in 1 .. (MaxTotal - Issued) : CallExtend("main", FreshBlock(n))
    \/ \E n \in 1 .. (MaxTotal - Issued) :
           CallInputCallback("audio", number_list_to_bytes(FreshBlock(n)), n)
    \/ CallGetSlice("main", 0, sys_maxint)
    \/ CallSetIndex("main", 0)
    \/ CallGetTimeSpan("main", SAMPLE_RATE)
    \/ CallOutputCallback("audio", MaxFrames)
    \/ \E t \in Threads :
           \/ Acquire(t)
           \/ Release(t)
           \/ ExtendStore(t)
           \/ ExtendAdvance(t)
           \/ ExtendStamp(t)
           \/ InputDecode(t)
           \/ SliceBody(t)
           \/ OutputBody(t)
           \/ IndexBody(t)
           \/ SpanBody(t)

SpecLock == Init /\ [][NextLock]_vars

\* ------------------------------------------------------ OscilloscopePager
\* The configurations a pager may be constructed with: non-negative
\* numbers with maxRenderingLatencySamples > minSearchSpaceSamples.
PagerConfigs ==
    {c \in [constructed : {TRUE}, numSamplesToRender : 1 .. MaxRender,
            minSamplesToAdvance : 0 .. 1,
            maxRenderingLatencySamples : 1 .. MaxLatency,
            minSearchSpaceSamples : 0 .. (MaxLatency - 1)] :
        c.maxRenderingLatencySamples > c.minSearchSpaceSamples}

\* The waveform the producer appends: samples below and above zero
Waveforms(n) == [1 .. n -> {-1, 1}]

\* selectPage, step 1
maxIndex == right_index - pagerConfig.numSamplesToRender

\* selectPage, step 2
minIndex ==
    Max(maxIndex - pagerConfig.maxRenderingLatencySamples,
        lastRenderedStartIndex + pagerConfig.minSamplesToAdvance)

\* A pager that searches whatever the search space.
enoughSearchSpaceAlways == TRUE

\* selectPage, step 3: the test that lets the tick go on
enoughSearchSpace ==
    (maxIndex - minIndex) >= pagerConfig.minSearchSpaceSamples

\* selectPage, step 4: the slice the pager fetches
candidate == get_slice(minIndex, right_index)

\* The offsets of c at which a page of numSamplesToRender samples starts
\* right after an upward zero crossing (offsets count from 0)
Crossings(c) ==
    {o \in 1 .. (Len(c) - pagerConfig.numSamplesToRender) :
        c[o] <= 0 /\ c[o + 1] > 0}

RECURSIVE SumOfSquaredDifferences(_, _, _, _)
SumOfSquaredDifferences(c, o, last, k) ==
    IF k = 0 THEN 0
    ELSE (c[o + k] - last[k]) * (c[o + k] - last[k])
            + SumOfSquaredDifferences(c, o, last, k - 1)

\* The similarity of the page at offset o to the page rendered last
Score(c, o, last) ==
    0 - SumOfSquaredDifferences(c, o, last,
            Min(Len(last), pagerConfig.numSamplesToRender))

\* A findBestOffset that answers 0 when it finds no crossing.
findBestOffsetNoFallback(c, last) ==
    IF Crossings(c) = {} THEN 0
    ELSE CHOOSE o \in Crossings(c) :
            \A q \in Crossings(c) :
                \/ Score(c, q, last) < Score(c, o, last)
                \/ Score(c, q, last) = Score(c, o, last) /\ o <= q

\* findBestOffset: the crossing whose page matches the last page best, the
\* earliest of equals; without a crossing, the most recent window.
findBestOffset(c, last) ==
    IF Crossings(c) = {} THEN Len(c) - pagerConfig.numSamplesToRender
    ELSE CHOOSE o \in Crossings(c) :
            \A q \in Crossings(c) :
                \/ Score(c, q, last) < Score(c, o, last)
                \/ Score(c, q, last) = Score(c, o, last) /\ o <= q

\* The pager is constructed with its tuning numbers; nothing is rendered.
ConstructPager(config) ==
    /\ ~pagerConfig.constructed
    /\ pagerConfig' = config
    /\ lastRenderedStartIndex' = 0
    /\ lastRenderedData' = Zeros(config.numSamplesToRender)
    /\ UNCHANGED <<stream, index_vars, now, ret, example, gate, locking, consumer>>
    /\ UNCHANGED pagerOutcome

\* selectPage(stream), once a display tick
selectPage ==
    /\ pagerConfig.constructed
    /\ IF ~enoughSearchSpace
       THEN /\ pagerOutcome' = "no update"
            /\ UNCHANGED <<lastRenderedStartIndex, lastRenderedData>>
       ELSE LET offset == findBestOffset(candidate, lastRenderedData)
            IN  /\ lastRenderedStartIndex' = minIndex + offset
                /\ lastRenderedData' =
                      py_slice(candidate, offset,
                               offset + pagerConfig.numSamplesToRender)
                /\ pagerOutcome' = "page"
    /\ UNCHANGED <<stream, index_vars, now, ret, example, gate, locking, consumer>>
    /\ UNCHANGED pagerConfig

\* A producer appends a waveform and the pager ticks, in any order.
NextPager ==
    \/ \E config \in PagerConfigs : ConstructPager(config)
    \/ \E n \in 1 .. (MaxTotal - Len(history)) :
           \E w \in Waveforms(n) : Extend(w)
    \/ selectPage

SpecPager == Init /\ [][NextPager]_vars

\* ------------------------------------------------------------ properties
\* The samples appended at logical positions lo .. hi - 1, in order.
Logical(lo, hi) == [k \in 1 .. (hi - lo) |-> history[lo + k]]

\* A bound of slice as the specification reads it: a negative bound counts
\* from rightIndex, then the bound is clamped into [leftIndex, rightIndex].
Clamp(x) ==
    LET y == IF x < 0 THEN right_index + x ELSE x
    IN  Min(Max(y, left_index), right_index)

\* C1: after any sequence of extend calls (blocks longer than the capacity
\* and empty blocks included) rightIndex is the number of samples ever
\* appended and leftIndex is max(0, rightIndex - capacity).
C1_IndicesCountAppended ==
    /\ right_index = Len(history)
    /\ Len(list) = max_size
    /\ left_index = Max(0, right_index - max_size)
    /\ (ret.op = "right_index" => ret.value = Len(history))
    /\ (ret.op = "left_index" => ret.value = Max(0, Len(history) - max_size))

\* C1 witness: a block longer than the capacity was just appended.
C1_Witness ==
    /\ ret.op = "extend"
    /\ Len(ret.args[1]) > max_size
    /\ right_index = MaxTotal
    /\ left_index = MaxTotal - max_size

\* C2: get_slice(begin, end) with non-negative bounds returns, in order, the
\* samples appended at logical positions max(begin, leftIndex) up to but
\* excluding min(end, rightIndex), never an evicted or overwritten value.
C2_SliceIsAppendedHistory ==
    /\ \A b \in NonNegBounds, e \in NonNegBounds :
          get_slice(b, e) = Logical(Max(b, left_index), Min(e, right_index))
    /\ (ret.op = "get_slice" /\ ret.args[1] >= 0 /\ ret.args[2] >= 0
          => ret.value = Logical(Max(ret.args[1], left_index),
                               Min(ret.args[2], right_index)))

\* C2 witness: stream[0:2] after position 0 was evicted yields the sample
\* appended at position 1 alone.
C2_Witness ==
    /\ ret.op = "get_slice"
    /\ ret.args = <<0, 2>>
    /\ left_index = 1
    /\ ret.value = <<history[2]>>

\* C3: for all integer bounds a and b, slice(a, b) raises nothing and has
\* length clamp(b) - clamp(a), and is empty when clamp(a) >= clamp(b).
C3_SliceLengthClamped ==
    /\ \A a \in AllBounds, b \in AllBounds :
          LET r == get_slice(a, b)
          IN  /\ Clamp(a) >= Clamp(b) => r = <<>>
              /\ Clamp(a) < Clamp(b) => Len(r) = Clamp(b) - Clamp(a)
    /\ (ret.op = "get_slice"
          => /\ ret.raised = "none"
             /\ Len(ret.value) = Max(0, Clamp(ret.args[2]) - Clamp(ret.args[1])))

\* C3 witness: stream[1:-1] on a stream of one sample: the bounds cross
\* after clamping and the slice is empty.
C3_Witness ==
    /\ ret.op = "get_slice"
    /\ ret.args = <<1, -1>>
    /\ right_index = 1
    /\ history # <<>>
    /\ Clamp(1) > Clamp(-1)
    /\ ret.value = <<>>

EntryCursor ==
    IF "pyaudio_output" \in DOMAIN index_vars
    THEN index_vars["pyaudio_output"][1] ELSE 0

\* The samples available from cursor c for a call of f frames.
Available(c, f) ==
    Logical(Min(Max(c, left_index), right_index),
            Max(Min(Max(c, left_index), right_index),
                Min(Max(c, left_index) + f, right_index)))

\* The samples of a returned block
Block(r) == bytes_to_number_list(r.value.data)

\* The samples delivered so far carry increasing logical indices and are the
\* samples appended at those indices.
DeliveredInOrder ==
    /\ \A k \in 1 .. (Len(delivered) - 1) : delivered[k][1] < delivered[k + 1][1]
    /\ \A k \in 1 .. Len(delivered) :
          /\ 0 <= delivered[k][1] /\ delivered[k][1] < right_index
          /\ delivered[k][2] = history[delivered[k][1] + 1]

\* The samples delivered so far are the appended history from index 0, where
\* the first callback puts the cursor, up to the cursor, each once.
DeliveredWithoutGaps ==
    /\ Len(delivered) = EntryCursor
    /\ \A k \in 1 .. Len(delivered) : delivered[k] = <<k - 1, history[k]>>

\* C6: every output callback with frame count F returns a block of exactly
\* F samples, whatever the stream and the cursor: the k samples available
\* from the cursor followed by F - k zeros.  (Stated for the streams whose
\* samples all fit a signed short, where encoding the block cannot fail.)
C6_AlwaysFullBlock ==
    [][\A c \in OutputCalls :
          (AllInRange(history) /\ OutputCallback(c[1], c[2]))
          => LET a == Available(EntryCursor, c[1])
             IN  /\ ret'.raised = "none"
                 /\ Len(Block(ret')) = c[1]
                 /\ Block(ret') = a \o Zeros(c[1] - Len(a))]_vars

\* C7: after every output callback leftIndex <= cursor <= rightIndex and
\* the assertion that says so did not fail, whatever extend calls other
\* threads made before.
C7_CursorInWindowAfterCallback ==
    /\ \A c \in OutputCalls :
          LET r == pyaudio_output_callback(c[1], c[2])
              cur == r.index_vars["pyaudio_output"][1]
          IN  /\ r.ret.raised # "AssertionError"
              /\ left_index <= cur /\ cur <= right_index
    /\ (ret.op = "pyaudio_output_callback"
          => /\ ret.raised # "AssertionError"
             /\ left_index <= index_vars["pyaudio_output"][1]
             /\ index_vars["pyaudio_output"][1] <= right_index)

\* C7 witness: a callback that found its cursor behind the window and was
\* short of samples left the cursor at rightIndex.
C7_Witness ==
    /\ ret.op = "pyaudio_output_callback"
    /\ ret.warnings = {"fell_behind", "underrun"}
    /\ left_index > 0
    /\ index_vars["pyaudio_output"][1] = right_index

\* C8: an output callback entered with the cursor below leftIndex does not
\* fail for it: it reports the condition, reads from leftIndex, so that the
\* block it returns starts with the oldest retrievable sample, and leaves
\* the cursor at min(leftIndex + frameCount, rightIndex).  (It returns the
\* block unless a sample it read does not fit a signed short.)
C8_FellBehindClampsToLeft ==
    \A c \in OutputCalls :
        EntryCursor < left_index =>
            LET r == pyaudio_output_callback(c[1], c[2])
                a == Logical(left_index, Min(left_index + c[1], right_index))
            IN  /\ "fell_behind" \in r.ret.warnings
                /\ r.index_vars["pyaudio_output"][1]
                       = Min(left_index + c[1], right_index)
                /\ r.ret.raised
                       = (IF AllInRange(a) THEN "none" ELSE "struct.error")
                /\ (r.ret.raised = "none" /\ c[1] > 0 /\ left_index < right_index
                       => Block(r.ret)[1] = history[left_index + 1])
                /\ (r.ret.raised = "none"
                       => Block(r.ret) = a \o Zeros(c[1] - Len(a)))

\* C8 witness: the producer overwrote position 0 before the callback read
\* it; the block starts with the sample at leftIndex.
C8_Witness ==
    /\ ret.op = "pyaudio_output_callback"
    /\ "fell_behind" \in ret.warnings
    /\ ret.raised = "none"
    /\ ret.args[1] > 0
    /\ left_index > 0
    /\ Block(ret)[1] = history[left_index + 1]
    /\ index_vars["pyaudio_output"][1]
           = Min(left_index + ret.args[1], right_index)

\* C9: get_index, get_index_timestamp and get_time_span on a name that was
\* never set raise KeyError instead of answering a default, and the failing
\* call changes neither rightIndex, the array nor the index table.
C9_UnknownCursorRaises ==
    /\ [](\A n \in Names \ DOMAIN index_vars :
             /\ get_index(index_vars, n).raised = "KeyError"
             /\ get_index_timestamp(index_vars, n).raised = "KeyError"
             /\ \A a \in BOOLEAN, b \in BOOLEAN :
                   get_time_span(n, SAMPLE_RATE, a, b).raised = "KeyError")
    /\ [][\A n \in Names \ DOMAIN index_vars :
             (\/ GetIndex(n)
              \/ GetIndexTimestamp(n)
              \/ \E a \in SpanFlags : GetTimeSpan(n, SAMPLE_RATE, a[1], a[2]))
             => /\ ret'.raised = "KeyError"
                /\ UNCHANGED <<right_index, list, index_vars>>]_vars

\* C9 witness: get_time_span on a name never set, while another cursor
\* exists and samples are buffered.
C9_Witness ==
    /\ ret.op = "get_time_span"
    /\ ret.args[1] = "scope"
    /\ ret.raised = "KeyError"
    /\ "pyaudio_output" \in DOMAIN index_vars
    /\ right_index > 0

\* C10: rightIndex and leftIndex never decrease, whatever any thread does
\* between two reads.
C10_IndicesMonotonic ==
    [][right_index' >= right_index /\ left_index' >= left_index]_vars

\* C10 witness: rightIndex read after the array wrapped.
C10_Witness ==
    /\ ret.op = "right_index"
    /\ ret.value > max_size
    /\ left_index > 0

\* C14: for a cursor that exists, the estimate is (rightIndex - position)
\* / rate seconds, plus the time since the last write exactly when the
\* writer is assumed to move, minus the time since the cursor was stored
\* exactly when the cursor is assumed to move, all read in one call from the
\* same state; with both flags false the clock moving on changes nothing.
C14_TimeSpanFormula ==
    /\ [](\A n \in DOMAIN index_vars : \A a \in BOOLEAN, b \in BOOLEAN :
             LET r == get_time_span(n, SAMPLE_RATE, a, b)
                 sinceWrite == now - last_extend_timestamp
                 sinceCursor == now - index_vars[n][2]
                 samples == right_index - index_vars[n][1]
             IN  /\ r.raised = "none"
                 /\ r.value.den = SAMPLE_RATE
                 /\ r.value.num = samples
                        + (IF a THEN SAMPLE_RATE * sinceWrite ELSE 0)
                        - (IF b THEN SAMPLE_RATE * sinceCursor ELSE 0))
    /\ [][Tick => \A n \in DOMAIN index_vars :
             get_time_span(n, SAMPLE_RATE, FALSE, FALSE)'
                 = get_time_span(n, SAMPLE_RATE, FALSE, FALSE)]_vars

\* C14 witness: an estimate with the writer held still, asked for after
\* the clock moved past the last write and past the cursor's timestamp:
\* only the cursor's elapsed time is in the result.
C14_Witness ==
    /\ ret.op = "get_time_span"
    /\ ret.raised = "none"
    /\ ret.args[3] = FALSE /\ ret.args[4] = TRUE
    /\ now > last_extend_timestamp
    /\ now > index_vars[ret.args[1]][2]
    /\ right_index > index_vars[ret.args[1]][1]
    /\ ret.value.num = (right_index - index_vars[ret.args[1]][1])
                       - SAMPLE_RATE * (now - index_vars[ret.args[1]][2])

\* C18: an output callback moves the cursor by the number of samples it
\* read from the stream, not by its frame count: when only k < frameCount
\* samples are available from the cursor, the cursor ends exactly at
\* rightIndex, and the zeros that fill the block do not move it.
C18_CursorAdvancesByRead ==
    [][(ret'.op = "pyaudio_output_callback" /\ now' = now)
          => LET frame_count == ret'.args[1]
                 k == Len(Available(EntryCursor, frame_count))
                 cursor == index_vars'["pyaudio_output"][1]
             IN  /\ cursor = clamp_index(EntryCursor) + k
                 /\ (k < frame_count => cursor = right_index)]_vars

\* The calls that read or write one cursor
CursorOps == {"set_index", "set_index_default", "get_index",
              "get_index_timestamp"}

\* C19: set_index_default creates the cursor (v, now) when the name is
\* absent and changes nothing, neither position nor timestamp, when it is
\* there; set_index always stores (v, now); both leave the other cursors
\* alone.  No cursor call changes rightIndex or the array, and no extend
\* (direct or from the input callback) changes the index table.
C19_CursorFrame ==
    /\ [](\A n \in Names, v \in IndexValues \cup DefaultValues :
             LET dflt == set_index_default(index_vars, n, v)
                 sett == set_index(index_vars, n, v)
             IN  /\ sett[n] = <<v, now>>
                 /\ DOMAIN sett = DOMAIN index_vars \cup {n}
                 /\ \A m \in DOMAIN index_vars \ {n} :
                        sett[m] = index_vars[m] /\ dflt[m] = index_vars[m]
                 /\ (n \in DOMAIN index_vars => dflt = index_vars)
                 /\ (n \notin DOMAIN index_vars => dflt = sett))
    /\ [][ /\ (ret'.op \in CursorOps /\ now' = now)
                => UNCHANGED <<right_index, list, last_extend_timestamp>>
           /\ (ret'.op = "set_index_default" /\ now' = now
                  /\ ret'.args[1] \in DOMAIN index_vars)
                => index_vars' = index_vars
           /\ (ret'.op = "set_index_default" /\ now' = now
                  /\ ret'.args[1] \notin DOMAIN index_vars)
                => index_vars'[ret'.args[1]] = <<ret'.args[2], now>>
           /\ (ret'.op = "set_index" /\ now' = now)
                => index_vars'[ret'.args[1]] = <<ret'.args[2], now>>
           /\ (right_index' # right_index \/ list' # list)
                => index_vars' = index_vars]_vars

\* C19 witness: set_index_default called, after the clock moved on, for a
\* cursor that exists, with a value other than the stored position: the
\* cursor keeps its position and its older timestamp.
C19_Witness ==
    /\ ret.op = "set_index_default"
    /\ ret.args[1] \in DOMAIN index_vars
    /\ index_vars[ret.args[1]][1] # ret.args[2]
    /\ index_vars[ret.args[1]][2] < now
    /\ right_index > 0

\* C20: fed the same blocks with the same capacity, the circular array and
\* the append-then-trim list have the same leftIndex and rightIndex after
\* every extend, and answer every slice with non-negative bounds with the
\* same samples.
C20_SameIndicesAndSlices ==
    /\ example_left_index = left_index
    /\ example_right_index = right_index
    /\ \A b \in NonNegBounds, e \in NonNegBounds :
          example_getslice(b, e) = get_slice(b, e)
    /\ "differ" \notin ret.warnings

\* C20 witness: after the array wrapped and the list was trimmed, a slice
\* asked from below leftIndex and answered with samples by both.
C20_Witness ==
    /\ ret.op = "get_slice"
    /\ start_index > 0
    /\ left_index > 0
    /\ max_size > 1
    /\ ret.args[1] < left_index
    /\ Len(ret.value) = max_size
    /\ example_getslice(ret.args[1], ret.args[2]) = ret.value

\* C12: is_done_swapping answers true exactly when the Event is clear.  A
\* start_swapping_buffers makes it false, and only the worker's clear(),
\* which comes after swap_buffers returned, makes it true again; so while
\* it is true the worker waits and every swap asked for while the gate was
\* done has been performed.
C12_DoneOnlyWhenClear ==
    /\ []( /\ is_done_swapping = ~is_swapping
           /\ (is_done_swapping => worker_pc = "wait" /\ swaps = requests_done)
           /\ (worker_pc \in {"swap_buffers", "clear"} => ~is_done_swapping))
    /\ [][ /\ (requests' = requests + 1 => ~is_done_swapping')
           /\ (~is_done_swapping /\ is_done_swapping')
                => /\ worker_pc = "clear" /\ worker_pc' = "wait"
                   /\ swaps' = requests_done'
           /\ (polled' # polled)
                => polled' = (IF is_swapping THEN "swapping" ELSE "done")
          ]_vars

\* C12 witness: the swap has returned but the worker has not cleared the
\* Event yet, and a poll still answered "not done".
C12_Witness ==
    /\ polled = "swapping"
    /\ worker_pc = "clear"
    /\ swaps = 1
    /\ requests = 1
    /\ ~is_done_swapping

\* C13: the Event is set only by start_swapping_buffers and cleared only by
\* the worker after a swap; a start_swapping_buffers while it is set
\* changes nothing of the gate; each swap happens between a set and the
\* next clear; so the swaps never outnumber the calls, and the requests
\* made while the gate was done are the swaps performed plus the one, if
\* any, still pending or in progress.
C13_OneSwapPerSignal ==
    /\ []( /\ swaps <= requests
           /\ requests_done
                = swaps + (IF is_swapping /\ worker_pc \in {"wait", "swap_buffers"}
                           THEN 1 ELSE 0))
    /\ [][ /\ (~is_swapping /\ is_swapping')
                => requests' = requests + 1 /\ worker_pc' = worker_pc
           /\ (is_swapping /\ ~is_swapping')
                => worker_pc = "clear" /\ requests' = requests
           /\ (requests' = requests + 1 /\ is_swapping)
                => UNCHANGED <<is_swapping, worker_pc, swaps, requests_done>>
           /\ (swaps' # swaps)
                => swaps' = swaps + 1 /\ is_swapping /\ is_swapping'
          ]_vars

\* C13 witness: three calls, two of them made while the Event was already
\* set, and one swap performed; the gate is done again.
C13_Witness ==
    /\ requests = 3
    /\ requests_done = 1
    /\ swaps = 1
    /\ is_done_swapping

\* A thread that has entered a method body and not yet left it (the extend
\* called from the input callback asks for the lock the thread holds).
Inside(t) ==
    \/ pc[t] \in {"extend_store", "extend_advance", "extend_stamp",
                  "input_decode", "slice_body", "output_body",
                  "index_body", "span_body"}
    \/ pc[t] \in ReleasePcs
    \/ pc[t] = "extend_acquire" /\ return_to[t] = "input_release"

\* An extend that has stored or counted some of its block and not all
HalfApplied(t) ==
    \/ pc[t] = "extend_advance"
    \/ pc[t] = "extend_store" /\ pending[t] # <<>>
          /\ Len(pending[t]) < call_args[t][1]

\* Every retrievable position holds the sample appended at it
WindowConsistent ==
    /\ Len(history) = right_index
    /\ \A i \in left_index .. (right_index - 1) :
          list[(i % Len(list)) + 1] = history[i + 1]

\* C11: two threads are never inside method bodies of one stream at the
\* same time (extend, get_slice, set_index, get_time_span, either
\* callback); and a thread inside a body that reads finds no extend half
\* applied: every
\* retrievable position holds the sample appended at it, no slot is written
\* that rightIndex does not cover, no block is counted in part, and the
\* slice it reads is the appended samples of the window.
C11_MutualExclusion ==
    /\ \A t \in Threads, u \in Threads :
          t # u => ~(Inside(t) /\ Inside(u))
    /\ \A t \in Threads :
          pc[t] \in {"slice_body", "slice_release", "output_body",
                     "output_release", "span_body", "span_release"}
          => /\ WindowConsistent
             /\ \A u \in Threads : ~HalfApplied(u)
    /\ \A t \in Threads :
          pc[t] = "slice_release"
          => ret.value = Logical(Max(call_args[t][1], left_index),
                               Min(call_args[t][2], right_index))
    /\ \A t \in Threads :
          (pc[t] = "span_release" /\ ret.raised = "none")
          => ret.value.num = Len(history) - index_vars["scope"][1]
                              + SAMPLE_RATE * (index_vars["scope"][2]
                                                 - last_extend_timestamp)

\* C11 witness: the main thread inside get_slice, having read a full
\* window after the array wrapped, while PyAudio's thread stands before the
\* lock with a block for the input callback.
C11_Witness ==
    /\ pc["main"] = "slice_release"
    /\ pc["audio"] = "input_acquire"
    /\ lock_owner = "main"
    /\ left_index > 0
    /\ Len(ret.value) = max_size

\* C15: a pager tick with (maxIndex - minIndex) < minSearchSpaceSamples
\* changes neither lastRenderedData nor lastRenderedStartIndex.
C15_NoUpdateWithoutSearchSpace ==
    [][(selectPage
          /\ (maxIndex - minIndex) < pagerConfig.minSearchSpaceSamples)
       => UNCHANGED <<lastRenderedData, lastRenderedStartIndex>>]_vars

\* C15 witness: a page was selected at a positive index, and a later tick
\* without enough search space has left it as it was.
C15_Witness ==
    /\ pagerOutcome = "no update"
    /\ lastRenderedStartIndex > 0
    /\ lastRenderedData
          = Logical(lastRenderedStartIndex,
                    lastRenderedStartIndex + pagerConfig.numSamplesToRender)
    /\ (maxIndex - minIndex) < pagerConfig.minSearchSpaceSamples

\* No sample of c that is <= 0 is followed by one that is > 0
NoUpwardCrossing(c) ==
    \A k \in 1 .. (Len(c) - 1) : ~(c[k] <= 0 /\ c[k + 1] > 0)

\* C16: for every candidate the pager can fetch, findBestOffset answers
\* an integer: len(candidate) - numSamplesToRender when the candidate has no
\* upward zero crossing, and otherwise that or an offset right after a
\* crossing; and a tick with enough search space selects a page, at
\* minIndex + that offset.
C16_FindBestOffsetTotal ==
    /\ []((pagerConfig.constructed /\ enoughSearchSpace)
            => LET offset == findBestOffset(candidate, lastRenderedData)
                   recent == Len(candidate) - pagerConfig.numSamplesToRender
               IN  /\ offset \in Int
                   /\ (NoUpwardCrossing(candidate) => offset = recent)
                   /\ (offset # recent
                         => /\ 1 <= offset /\ offset <= recent
                            /\ candidate[offset] <= 0
                            /\ candidate[offset + 1] > 0))
    /\ [][(selectPage
              /\ (maxIndex - minIndex) >= pagerConfig.minSearchSpaceSamples)
           => /\ pagerOutcome' = "page"
              /\ lastRenderedStartIndex'
                    = minIndex + findBestOffset(candidate, lastRenderedData)
          ]_vars

\* C16 witness: the waveform never crossed zero upwards, and the tick
\* selected the most recent window.
C16_Witness ==
    /\ pagerOutcome = "page"
    /\ right_index > pagerConfig.numSamplesToRender
    /\ NoUpwardCrossing(history)
    /\ lastRenderedStartIndex = right_index - pagerConfig.numSamplesToRender
    /\ lastRenderedData = Logical(lastRenderedStartIndex, right_index)

\* C17, as claimed: in every state where a tick passes the search-space
\* test, whatever the capacity and the configuration, minIndex >= leftIndex
\* and the slice fetched is the samples from minIndex to rightIndex.
C17_MinIndexInWindow ==
    (pagerConfig.constructed
       /\ (maxIndex - minIndex) >= pagerConfig.minSearchSpaceSamples)
    => /\ minIndex >= left_index
       /\ candidate = Logical(minIndex, right_index)

\* C17, amended: the same for the streams whose capacity is at least
\* numSamplesToRender + maxRenderingLatencySamples (the pager starting
\* with lastRenderedStartIndex = 0).
C17_MinIndexInWindowOfLargeStream ==
    (pagerConfig.constructed
       /\ (maxIndex - minIndex) >= pagerConfig.minSearchSpaceSamples
       /\ max_size >= pagerConfig.numSamplesToRender
                         + pagerConfig.maxRenderingLatencySamples)
    => /\ minIndex >= left_index
       /\ minIndex >= 0
       /\ candidate = Logical(minIndex, right_index)

\* C17 witness: a stream just large enough, after it wrapped: the tick
\* fetched from minIndex = leftIndex > 0 and selected a page there or later.
C17_Witness ==
    /\ pagerOutcome = "page"
    /\ max_size = pagerConfig.numSamplesToRender
                     + pagerConfig.maxRenderingLatencySamples
    /\ left_index > 0
    /\ lastRenderedStartIndex >= left_index
    /\ lastRenderedData
          = Logical(lastRenderedStartIndex,
                    lastRenderedStartIndex + pagerConfig.numSamplesToRender)

\* C21: the worker goes from wait() to swap_buffers to clear() and back to
\* wait(), in no other order; and when both threads keep being scheduled
\* and swap_buffers returns, a set Event is eventually clear again, so that
\* is_done_swapping answers true, and the main thread, once in its polling
\* loop, eventually leaves it.
C21_PollingLoopExits ==
    /\ [][worker_pc' # worker_pc
            => <<worker_pc, worker_pc'>>
                  \in {<<"wait", "swap_buffers">>, <<"swap_buffers", "clear">>,
                       <<"clear", "wait">>}]_vars
    /\ (is_swapping ~> is_done_swapping)
    /\ (main_pc \in {"is_done_swapping", "poll_events"}
          ~> (main_pc = "poll_events_after" /\ polled = "done"))

\* C21 witness: the main thread has left its polling loop for the second
\* time, after polling in vain while the worker was swapping.
C21_Witness ==
    /\ main_pc = "poll_events_after"
    /\ polled = "done"
    /\ swaps = 2
    /\ requests = 2
    /\ worker_pc = "wait"

\* C22: while the main thread is inside perform_frame the worker is not
\* inside glfw.swap_buffers: it waits, with the Event clear.  The worker is
\* in swap_buffers only while the Event is set, and the main thread is
\* outside its polling loop only when the last answer it got was "done"
\* and no start_swapping_buffers has followed it.
C22_RenderAndSwapApart ==
    /\ ~(main_pc = "perform_frame" /\ worker_pc = "swap_buffers")
    /\ (main_pc \in {"loop_test", "perform_frame", "start_swapping_buffers",
                     "poll_events_after", "stopped"}
          => /\ worker_pc = "wait"
             /\ ~is_swapping
             /\ polled \in {"never", "done"})
    /\ (worker_pc \in {"swap_buffers", "clear"}
          => is_swapping /\ main_pc \in {"is_done_swapping", "poll_events"})

\* C22 witness: the main thread renders its second frame; the first swap
\* is over and the worker waits.
C22_Witness ==
    /\ main_pc = "perform_frame"
    /\ swaps = 1
    /\ requests = 1
    /\ polled = "done"
    /\ worker_pc = "wait"

C25_CursorStoredBeforeEncoding ==
    [][ /\ EntryCursor' >= EntryCursor
        /\ \A k \in (Len(delivered) + 1) .. Len(delivered') :
              delivered'[k][1] >= EntryCursor
        /\ (ret'.op = "pyaudio_output_callback" /\ ret'.raised = "struct.error")
              => LET index == clamp_index(EntryCursor)
                     out_numbers == get_slice(index, index + ret'.args[1])
                 IN  /\ ~AllInRange(out_numbers)
                     /\ ret'.value = None
                     /\ delivered' = delivered
                     /\ EntryCursor' = index + Len(out_numbers)
                     /\ EntryCursor' > index ]_vars

\* A callback failed on the out-of-range sample at index 0, and a later
\* callback delivered the sample at index 1 and nothing else.
C25_Witness ==
    /\ encode_failed /\ ~fell_behind
    /\ ~InRange(history[1])
    /\ delivered = <<<<1, Good(1)>>>>
    /\ ret.op = "pyaudio_output_callback" /\ ret.raised = "none"

\* A thread inside the body of extend
InExtend(t) ==
    pc[t] \in {"extend_store", "extend_advance", "extend_stamp", "extend_release"}

\* The block of the extend thread t is inside: the samples it has appended
\* so far, taken as the last ones of the history, and the ones it still
\* holds.
BlockOf(t) ==
    LET done == call_args[t][1] - Len(pending[t])
    IN  SubSeq(history, Len(history) - done + 1, Len(history)) \o pending[t]

\* C24: while the main thread and PyAudio's thread call extend on one
\* stream at the same time, the samples a call has appended so far are the
\* last ones of the stream, in the order of its block, with no sample of
\* the other thread's block among them; and once both calls have returned,
\* rightIndex counts the samples of both blocks and every retrievable
\* position holds the sample appended at it.
C24_BlocksContiguous ==
    /\ \A t \in Threads :
          InExtend(t)
          => /\ call_args[t][1] - Len(pending[t]) \in 0 .. Len(history)
             /\ Len(BlockOf(t)) = call_args[t][1]
             /\ \A k \in 1 .. (Len(BlockOf(t)) - 1) :
                   BlockOf(t)[k + 1] = BlockOf(t)[k] + 1
    /\ (\A t \in Threads : pc[t] = "idle")
          => /\ right_index = Issued
             /\ WindowConsistent

\* C24 witness: the main thread called extend with the block <<1, 2>>, then
\* PyAudio's thread called the input callback with the block <<3>> and got
\* the lock first; both calls have returned.
C24_Witness ==
    /\ \A t \in Threads : pc[t] = "idle"
    /\ history = <<3, 1, 2>>
    /\ right_index = 3

\* C26: once the producer appends no more samples and PyAudio keeps calling
\* the output callback with a positive frame_count, the cursor reaches
\* rightIndex and stays there; a call that starts with the cursor at
\* rightIndex returns a block of frame_count zeros and leaves the cursor at
\* rightIndex; and in every state a call comes back at once, with a block
\* or with the error of the encoding: it never waits for samples.
C26_DrainsToSilence ==
    /\ <>[](EntryCursor = right_index)
    /\ [][(/\ ret'.op = "pyaudio_output_callback"
            /\ ret'.args[1] > 0
            /\ EntryCursor = right_index)
           => /\ EntryCursor' = right_index'
              /\ ret'.raised = "none"
              /\ Block(ret') = Zeros(ret'.args[1])
              /\ delivered' = delivered]_vars
    /\ [](\A f \in Frames :
            pyaudio_output_callback(f, 0).ret.raised \in {"none", "struct.error"})

\* C26 witness: two samples or more were appended and delivered, and a
\* later callback of two frames found the cursor at rightIndex and returned
\* two zeros.
C26_Witness ==
    /\ right_index >= 2
    /\ Len(delivered) = right_index
    /\ EntryCursor = right_index
    /\ ret.op = "pyaudio_output_callback" /\ ret.raised = "none"
    /\ ret.args[1] = 2
    /\ Block(ret) = Zeros(2)
====
